---- MODULE Spec2Model ----
(***************************************************************************)
(* A model of nodes.py of ComfyUI-MimicMotionWrapper: the three nodes      *)
(* DownloadAndLoadMimicMotionModel, MimicMotionSampler and                 *)
(* MimicMotionGetPoses.  Keypoint coordinates and the fitted affine        *)
(* parameters are exact: detected coordinates are integers on a grid, the   *)
(* fitted parameters and the rescaled coordinates are rationals           *)
(* <<numerator, denominator>>, so that the least-squares fit of           *)
(* np.polyfit is computed, not assumed.                                    *)
(***************************************************************************)
EXTENDS Integers, Sequences, FiniteSets, TLC

VARIABLES
    \* ---- MimicMotionGetPoses.process ----
    ref_image,              \* input: [shape |-> <<H, W>>, content |-> image]
    pose_images,            \* input: [shape |-> <<H, W>>, frames |-> Seq(image)]
    include,                \* input: [body, hand, face |-> BOOLEAN]
    pc,                     \* position of process: idle, detected, fitted, done, failed
    dw_calls,               \* the images dwprocessor was called on, in call order
    ref_pose,               \* dwprocessor(ref_image)
    ref_keypoint_id,        \* the filtered correspondence indices
    ref_body,               \* the reference landmarks at ref_keypoint_id
    detected_bodies,        \* per fitting frame, its landmarks at ref_keypoint_id
    detected_poses_np_list, \* one pose per driving frame
    a, b,                   \* the fitted map: a = <<ax, ay>>, b = <<bx, by>>
    output_tensor,          \* the returned sequence of pose images
    err,                    \* the exception that ended process, or NoError
    prev,                   \* the previous finished call of process (host history)
    \* ---- DownloadAndLoadMimicMotionModel.loadmodel ----
    files,                  \* which paths exist: [model_path, svd_path |-> BOOLEAN]
    precision,              \* input of loadmodel
    lpc,                    \* position of loadmodel: idle, checked, done, failed
    downloads,              \* the snapshot_download calls made so far
    mimic_model,            \* the returned handle, or None
    load_err,               \* the exception that ended loadmodel, or NoError
    \* ---- MimicMotionSampler.process ----
    spc,                    \* position of the sampler: idle, done
    sampler_in,             \* inputs of the sampler call
    pipeline_call,          \* the keyword arguments the pipeline was called with
    frames                  \* the returned frames

vars == <<ref_image, pose_images, include, pc, dw_calls, ref_pose, ref_keypoint_id,
          ref_body, detected_bodies, detected_poses_np_list, a, b, output_tensor, err, prev,
          files, precision, lpc, downloads, mimic_model, load_err,
          spc, sampler_in, pipeline_call, frames>>

posevars == <<ref_image, pose_images, include, pc, dw_calls, ref_pose, ref_keypoint_id,
              ref_body, detected_bodies, detected_poses_np_list, a, b, output_tensor, err, prev>>
loadvars == <<files, precision, lpc, downloads, mimic_model, load_err>>
samplevars == <<spc, sampler_in, pipeline_call, frames>>

None == "None"
\* no call of process has ended yet
NoCall == [edit |-> "none"]
NoError == [kind |-> "none", raised_by |-> "none"]

\* Largest number of driving frames (and of sampler pose frames) in one call.
MaxFrames == 2

(***************************************************************************)
(* Exact rational arithmetic: <<n, d>> with d > 0 and gcd(n, d) = 1.        *)
(***************************************************************************)
Abs(x) == IF x < 0 THEN -x ELSE x

RECURSIVE GCD(_, _)
GCD(x, y) == IF y = 0 THEN x ELSE GCD(y, x % y)

Rat(n, d) ==
    LET g == GCD(Abs(n), Abs(d))
        s == IF d < 0 THEN -1 ELSE 1
    IN  <<(s * n) \div g, (s * d) \div g>>

RECURSIVE Sum(_)
Sum(s) == IF s = <<>> THEN 0 ELSE Head(s) + Sum(Tail(s))

RECURSIVE Flatten(_)
Flatten(ss) == IF ss = <<>> THEN <<>> ELSE Head(ss) \o Flatten(Tail(ss))

\* np.tile(v, n): v repeated n times
RECURSIVE Tile(_, _)
Tile(v, n) == IF n = 0 THEN <<>> ELSE v \o Tile(v, n - 1)

(***************************************************************************)
(* The keypoint detector (DWposeDetector) is an opaque deterministic       *)
(* callable.  An image is described by what the detector finds in it: the  *)
(* number of persons, the size of the skeleton and which landmarks are     *)
(* confident.  Coordinates are on an integer grid, scores are in tenths.   *)
(***************************************************************************)
NumBodyPoints == 18
ScoreThreshold == 3

Scales == {1, 2}
Confs == {"all", "nose", "limbs"}
\* <<H, W>> of the reference image, and of the driving batch
Shapes == {<<4, 4>>, <<4, 8>>}
DrivingShapes == {<<4, 8>>}

\* x and y of the 18 body landmarks of the base skeleton, landmark 0 first
BaseX == <<3, 3, 2, 1, 1, 4, 5, 5, 2, 2, 2, 4, 4, 4, 2, 4, 1, 5>>
BaseY == <<1, 2, 2, 3, 4, 2, 3, 4, 4, 5, 6, 4, 5, 6, 1, 1, 1, 1>>

CanonicalIds == <<0, 1, 2, 5, 8, 11, 14, 15, 16, 17>>
InCanonical(i) == \E k \in 1..Len(CanonicalIds) : CanonicalIds[k] = i

Contents ==
    {[persons |-> 1, scale |-> s, conf |-> c] : s \in Scales, c \in Confs}
    \cup {[persons |-> 0, scale |-> 1, conf |-> "all"],
          [persons |-> 2, scale |-> 1, conf |-> "all"]}

\* the images the nodes are run on: the large skeleton is fully confident,
\* the small one is confident in the nose alone or in no stable landmark
Images == {c \in Contents : c.persons = 1 => (c.scale = 2 <=> c.conf = "all")}
\* the scores of a driving frame are never read: one pattern below the threshold
DrivingImages == {c \in Images : c.conf # "limbs"}

\* score of landmark i (0-based) under a confidence pattern, in tenths:
\* "limbs" puts every canonical landmark exactly at the threshold
ScoreOf(conf, i) ==
    CASE conf = "all"   -> 9
      [] conf = "nose"  -> IF i = 0 THEN 4 ELSE ScoreThreshold
      [] conf = "limbs" -> IF InCanonical(i) THEN ScoreThreshold ELSE 9

\* landmark j (0-based) of person p (0-based)
BodyPoint(img, p, j) ==
    <<img.scale * BaseX[j + 1] + p, img.scale * BaseY[j + 1] + p>>

dwprocessor(img) ==
    [bodies |->
        [candidate |-> [k \in 1..(NumBodyPoints * img.persons) |->
                          BodyPoint(img, (k - 1) \div NumBodyPoints,
                                         (k - 1) % NumBodyPoints)],
         score |-> [p \in 1..img.persons |->
                      [j \in 1..NumBodyPoints |-> ScoreOf(img.conf, j - 1)]]],
     hands |-> [k \in 1..(2 * img.persons) |->
                  BodyPoint(img, (k - 1) \div 2, IF k % 2 = 1 THEN 4 ELSE 7)],
     faces |-> [p \in 1..img.persons |-> BodyPoint(img, p - 1, 0)]]

(***************************************************************************)
(* The renderer draw_pose is opaque: an image is what was drawn on it.     *)
(***************************************************************************)
draw_pose(pose, height, width, include_body, include_hand, include_face) ==
    [height |-> height, width |-> width,
     body |-> IF include_body THEN pose.bodies.candidate ELSE <<>>,
     hand |-> IF include_hand THEN pose.hands ELSE <<>>,
     face |-> IF include_face THEN pose.faces ELSE <<>>]

(***************************************************************************)
(* MimicMotionGetPoses.process                                             *)
(***************************************************************************)
\* a slip of line 241: >= for >
RefKeypointIdAtLeast(pose) ==
    SelectSeq(CanonicalIds,
              LAMBDA i : Len(pose.bodies.score) > 0
                         /\ pose.bodies.score[1][i + 1] >= ScoreThreshold)

\* a fallback to the whole canonical list when no landmark of a detected
\* person is confident
RefKeypointIdFallback(pose) ==
    LET kept == SelectSeq(CanonicalIds,
                          LAMBDA i : Len(pose.bodies.score) > 0
                                     /\ pose.bodies.score[1][i + 1] > ScoreThreshold)
    IN  IF kept = <<>> /\ Len(pose.bodies.score) > 0 THEN CanonicalIds ELSE kept

\* lines 239-241: the canonical indices kept for the reference detection
RefKeypointId(pose) ==
    SelectSeq(CanonicalIds,
              LAMBDA i : Len(pose.bodies.score) > 0
                         /\ pose.bodies.score[1][i + 1] > ScoreThreshold)

\* arr[ids]: the rows of arr at the 0-based indices ids, in the order of ids
Take(arr, ids) == [k \in 1..Len(ids) |-> arr[ids[k] + 1]]

\* lines 249-251: one detection per driving frame, appended in input order;
\* calls logs the images the detector was run on
RECURSIVE DetectLoop(_, _)
DetectLoop(imgs, acc) ==
    IF imgs = <<>> THEN acc
    ELSE DetectLoop(Tail(imgs),
                    [list |-> Append(acc.list, dwprocessor(Head(imgs))),
                     calls |-> Append(acc.calls, Head(imgs))])

\* insert(0, ...) for append: the detections come out in reverse order
RECURSIVE DetectLoopPrepend(_, _)
DetectLoopPrepend(imgs, acc) ==
    IF imgs = <<>> THEN acc
    ELSE DetectLoopPrepend(Tail(imgs),
                           [list |-> <<dwprocessor(Head(imgs))>> \o acc.list,
                            calls |-> Append(acc.calls, Head(imgs))])

DetectAllPrepend(imgs) == DetectLoopPrepend(imgs, [list |-> <<>>, calls |-> <<>>])

DetectAll(imgs) == DetectLoop(imgs, [list |-> <<>>, calls |-> <<>>])

\* line 254: the candidates of the frames with a complete body detection
IsComplete(pose) == Len(pose.bodies.candidate) = NumBodyPoints
\* shape[0] >= 18 for shape[0] == 18: the first person of a crowded frame is fitted too
CompleteBodiesLoose(poses) ==
    LET kept == SelectSeq(poses, LAMBDA q : Len(q.bodies.candidate) >= NumBodyPoints)
    IN  [k \in 1..Len(kept) |-> SubSeq(kept[k].bodies.candidate, 1, NumBodyPoints)]

CompleteBodies(poses) ==
    LET kept == SelectSeq(poses, IsComplete)
    IN  [k \in 1..Len(kept) |-> kept[k].bodies.candidate]

Xs(points) == [k \in 1..Len(points) |-> points[k][1]]
Ys(points) == [k \in 1..Len(points) |-> points[k][2]]

\* np.polyfit(x, y, 1): the least-squares line y = slope * x + intercept.
\* An empty x raises TypeError; when all x are equal the system has rank 1
\* and lstsq returns the minimum-norm solution of the column-scaled system.
Polyfit(x, y) ==
    LET n   == Len(x)
        Sx  == Sum(x)
        Sy  == Sum(y)
        Sxx == Sum([k \in 1..n |-> x[k] * x[k]])
        Sxy == Sum([k \in 1..n |-> x[k] * y[k]])
        D   == n * Sxx - Sx * Sx
        N   == n * Sxy - Sx * Sy
    IN  IF n = 0
        THEN [ok |-> FALSE, kind |-> "TypeError"]
        ELSE IF D # 0
        THEN [ok |-> TRUE, slope |-> Rat(N, D), intercept |-> Rat(Sy * D - N * Sx, n * D)]
        ELSE IF Sx = 0
        THEN [ok |-> FALSE, kind |-> "LinAlgError"]
        ELSE [ok |-> TRUE, slope |-> Rat(Sy, 2 * Sx), intercept |-> Rat(Sy, 2 * n)]

\* a precedence slip of line 259: ax = ay / (fh / fw / (height * width))
AxOfGrouped(ay, fh, fw, height, width) ==
    Rat(ay[1] * fw * height * width, ay[2] * fh)

\* line 259: ax = ay / (fh / fw / height * width)
AxOf(ay, fh, fw, height, width) ==
    Rat(ay[1] * fw * height, ay[2] * fh * width)

\* line 260: bx = mean(tile(ref_x) - detected_x * ax)
BxOf(ref_x, det_x, ax) ==
    Rat(Sum(ref_x) * ax[2] - ax[1] * Sum(det_x), Len(det_x) * ax[2])

\* v * s + t for a detected coordinate v, a scale s and an offset t
Lin(v, s, t) ==
    LET l == (s[2] \div GCD(s[2], t[2])) * t[2]
    IN  Rat(v * s[1] * (l \div s[2]) + t[1] * (l \div t[2]), l)

\* points * a + b (numpy broadcasting over the rows)
Affine(points, av, bv) ==
    [k \in 1..Len(points) |->
        <<Lin(points[k][1], av[1], bv[1]), Lin(points[k][2], av[2], bv[2])>>]

\* only the parts that will be drawn are rescaled, the others keep their
\* detected positions
RescaleDrawnParts(pose, av, bv) ==
    LET keep(points) == Affine(points, <<<<1, 1>>, <<1, 1>>>>, <<<<0, 1>>, <<0, 1>>>>)
    IN  [bodies |-> [candidate |-> IF include.body
                                   THEN Affine(pose.bodies.candidate, av, bv)
                                   ELSE keep(pose.bodies.candidate),
                     score |-> pose.bodies.score],
         hands |-> IF include.hand THEN Affine(pose.hands, av, bv) ELSE keep(pose.hands),
         faces |-> IF include.face THEN Affine(pose.faces, av, bv) ELSE keep(pose.faces)]

\* lines 266-268: the rescale of one detected pose
Rescale(pose, av, bv) ==
    [bodies |-> [candidate |-> Affine(pose.bodies.candidate, av, bv),
                 score |-> pose.bodies.score],
     hands |-> Affine(pose.hands, av, bv),
     faces |-> Affine(pose.faces, av, bv)]

\* lines 265-270: every detected pose is rescaled in place, then drawn
\* the rescale loop runs over the fitting frames only
RECURSIVE RescaleAllFitted(_, _, _)
RescaleAllFitted(poses, av, bv) ==
    IF poses = <<>> THEN <<>>
    ELSE (IF Len(Head(poses).bodies.candidate) = NumBodyPoints
          THEN <<Rescale(Head(poses), av, bv)>>
          ELSE <<>>)
         \o RescaleAllFitted(Tail(poses), av, bv)

RECURSIVE RescaleAll(_, _, _)
RescaleAll(poses, av, bv) ==
    IF poses = <<>> THEN <<>>
    ELSE <<Rescale(Head(poses), av, bv)>> \o RescaleAll(Tail(poses), av, bv)

DrawAll(poses, height, width, inc) ==
    [k \in 1..Len(poses) |->
        draw_pose(poses[k], height, width, inc.body, inc.hand, inc.face)]

\* line 277: torch.cat((ref_pose_tensor.unsqueeze(0), output_tensor))
OutputTensor(ref_pose_img, output_pose) == <<ref_pose_img>> \o output_pose

\* lines 235-251: detect the reference, filter the correspondence indices,
\* select the reference landmarks, detect every driving frame
DetectPoses ==
    /\ pc = "idle"
    /\ ref_pose' = dwprocessor(ref_image.content)
    /\ ref_keypoint_id' = RefKeypointId(ref_pose')
    /\ ref_body' = Take(ref_pose'.bodies.candidate, ref_keypoint_id')
    /\ LET loop == DetectAll(pose_images.frames)
       IN  /\ detected_poses_np_list' = loop.list
           /\ dw_calls' = <<ref_image.content>> \o loop.calls
    /\ pc' = "detected"
    /\ UNCHANGED <<ref_image, pose_images, include, detected_bodies, a, b,
                   output_tensor, err, prev>>

\* lines 253-255: the fitting set, np.stack(...)[:, ref_keypoint_id]
FittingSet(poses, ids) ==
    LET complete == CompleteBodies(poses)
    IN  [k \in 1..Len(complete) |-> Take(complete[k], ids)]

\* lines 257-262: the linear-rescale parameters
FitResult(bodies) ==
    LET flat == Flatten(bodies)
        fit  == Polyfit(Ys(flat), Tile(Ys(ref_body), Len(bodies)))
        ax   == AxOf(fit.slope, pose_images.shape[1], pose_images.shape[2],
                     ref_image.shape[1], ref_image.shape[2])
        bx   == BxOf(Tile(Xs(ref_body), Len(bodies)), Xs(flat), ax)
    IN  IF ~fit.ok
        THEN [ok |-> FALSE, err |-> [kind |-> fit.kind, raised_by |-> "np.polyfit"]]
        ELSE [ok |-> TRUE, a |-> <<ax, fit.slope>>, b |-> <<bx, fit.intercept>>]

\* lines 253-262: np.stack raises on an empty fitting set, np.polyfit on an
\* empty x; otherwise a and b are set
FitParams ==
    /\ pc = "detected"
    /\ LET bodies == FittingSet(detected_poses_np_list, ref_keypoint_id)
           r == FitResult(bodies)
       IN  IF bodies = <<>>
           THEN /\ err' = [kind |-> "ValueError", raised_by |-> "np.stack"]
                /\ pc' = "failed"
                /\ UNCHANGED <<a, b, detected_bodies>>
           ELSE /\ detected_bodies' = bodies
                /\ IF r.ok
                   THEN /\ a' = r.a
                        /\ b' = r.b
                        /\ pc' = "fitted"
                        /\ err' = err
                   ELSE /\ err' = r.err
                        /\ pc' = "failed"
                        /\ UNCHANGED <<a, b>>
    /\ UNCHANGED <<ref_image, pose_images, include, dw_calls, ref_pose, ref_keypoint_id,
                   ref_body, detected_poses_np_list, output_tensor, prev>>

\* lines 263-280: rescale and draw every driving pose, draw the reference
\* pose, return the reference rendering followed by the driving renderings
RenderPoses ==
    /\ pc = "fitted"
    /\ detected_poses_np_list' = RescaleAll(detected_poses_np_list, a, b)
    /\ output_tensor' =
          OutputTensor(draw_pose(ref_pose, ref_image.shape[1], ref_image.shape[2],
                                 include.body, include.hand, include.face),
                       DrawAll(detected_poses_np_list', ref_image.shape[1],
                               ref_image.shape[2], include))
    /\ pc' = "done"
    /\ UNCHANGED <<ref_image, pose_images, include, dw_calls, ref_pose, ref_keypoint_id,
                   ref_body, detected_bodies, a, b, err, prev>>

(***************************************************************************)
(* The host runs the node again after one of its inputs was edited (or     *)
(* none).  process keeps no state between calls: everything but the        *)
(* inputs starts afresh.  prev records the call that just ended.           *)
(***************************************************************************)
Flags == [body : BOOLEAN, hand : BOOLEAN, face : BOOLEAN]
\* an image whose detection is left out of the fit
Incomplete(img) == ~IsComplete(dwprocessor(img))

\* what the host keeps of a finished call, and which input it edits next
Summary(edit) ==
    [edit |-> edit, pc |-> pc, err |-> err, ref_keypoint_id |-> ref_keypoint_id,
     a |-> a, b |-> b, poses |-> detected_poses_np_list]

\* edit "include": one of the three flags toggled
IncludeEdits ==
    {g \in Flags : Cardinality({n \in {"body", "hand", "face"} : g[n] # include[n]}) = 1}

\* edit "frame": one incomplete driving frame replaced by another incomplete one
FrameEdits ==
    {[pose_images EXCEPT !.frames[i] = img] :
        i \in {j \in 1..Len(pose_images.frames) : Incomplete(pose_images.frames[j])},
        img \in {c \in DrivingImages : Incomplete(c)}}

Restart ==
    /\ pc' = "idle"
    /\ dw_calls' = <<>>
    /\ ref_pose' = None
    /\ ref_keypoint_id' = <<>>
    /\ ref_body' = <<>>
    /\ detected_bodies' = <<>>
    /\ detected_poses_np_list' = <<>>
    /\ a' = None
    /\ b' = None
    /\ output_tensor' = <<>>
    /\ err' = NoError

RequeueInclude ==
    /\ pc \in {"done", "failed"}
    /\ prev' = Summary("include")
    /\ include' \in IncludeEdits
    /\ UNCHANGED <<ref_image, pose_images>>
    /\ Restart

RequeueFrame ==
    /\ pc \in {"done", "failed"}
    /\ prev' = Summary("frame")
    /\ pose_images' \in FrameEdits \ {pose_images}
    /\ UNCHANGED <<ref_image, include>>
    /\ Restart

RECURSIVE SeqsUpTo(_, _)
SeqsUpTo(S, n) ==
    IF n = 0 THEN {<<>>}
    ELSE LET shorter == SeqsUpTo(S, n - 1)
         IN  shorter \cup {Append(q, x) : q \in {r \in shorter : Len(r) = n - 1}, x \in S}

InitPoses ==
    /\ ref_image \in [shape : Shapes, content : Images]
    /\ pose_images \in [shape : DrivingShapes, frames : SeqsUpTo(DrivingImages, MaxFrames)]
    /\ include \in Flags
    /\ pc = "idle"
    /\ dw_calls = <<>>
    /\ ref_pose = None
    /\ ref_keypoint_id = <<>>
    /\ ref_body = <<>>
    /\ detected_bodies = <<>>
    /\ detected_poses_np_list = <<>>
    /\ a = None
    /\ b = None
    /\ output_tensor = <<>>
    /\ err = NoError
    /\ prev = NoCall

(***************************************************************************)
(* DownloadAndLoadMimicMotionModel.loadmodel                               *)
(***************************************************************************)
Precisions == {"fp32", "fp16", "bf16"}

\* line 79: the precision selector to the torch dtype
DtypeOf(p) ==
    CASE p = "bf16" -> "torch.bfloat16"
      [] p = "fp16" -> "torch.float16"
      [] p = "fp32" -> "torch.float32"

\* lines 84-90: fetch the checkpoint when it is not there; the fetch creates
\* the file or raises
EnsureCheckpoint ==
    /\ lpc = "idle"
    /\ IF files.model_path
       THEN /\ lpc' = "checked"
            /\ UNCHANGED <<files, downloads, load_err>>
       ELSE /\ downloads' = Append(downloads, "Kijai/MimicMotion_pruned")
            /\ \/ /\ files' = [files EXCEPT !.model_path = TRUE]
                  /\ lpc' = "checked"
                  /\ load_err' = load_err
               \/ /\ lpc' = "failed"
                  /\ load_err' = [kind |-> "Exception", raised_by |-> "snapshot_download"]
                  /\ files' = files
    /\ UNCHANGED <<precision, mimic_model>>

\* the check of lines 97-98 left out
CheckBaseModelSkipped ==
    /\ lpc = "checked"
    /\ lpc' = "based"
    /\ UNCHANGED <<files, precision, downloads, mimic_model, load_err>>

\* lines 95-98: the base model directory must already be there
CheckBaseModel ==
    /\ lpc = "checked"
    /\ IF files.svd_path
       THEN /\ lpc' = "based"
            /\ load_err' = load_err
       ELSE /\ lpc' = "failed"
            /\ load_err' = [kind |-> "ValueError", raised_by |-> "loadmodel"]
    /\ UNCHANGED <<files, precision, downloads, mimic_model>>

\* lines 100-121: build the pipeline and return the handle
BuildPipeline ==
    /\ lpc = "based"
    /\ mimic_model' = [pipeline |-> "MimicMotionPipeline", dtype |-> DtypeOf(precision)]
    /\ lpc' = "done"
    /\ UNCHANGED <<files, precision, downloads, load_err>>

InitLoad ==
    /\ files \in [model_path : BOOLEAN, svd_path : BOOLEAN]
    /\ precision \in Precisions
    /\ lpc = "idle"
    /\ downloads = <<>>
    /\ mimic_model = None
    /\ load_err = NoError

LoadIdle ==
    /\ files = [model_path |-> TRUE, svd_path |-> TRUE]
    /\ precision = "fp16"
    /\ lpc = "idle"
    /\ downloads = <<>>
    /\ mimic_model = None
    /\ load_err = NoError

(***************************************************************************)
(* MimicMotionSampler.process                                              *)
(***************************************************************************)
TileSize == 16
TileOverlap == 6
DecodeChunkSize == 8

StepChoices == {1, 25}
FpsChoices == {2, 15}

\* the generation pipeline is opaque: one batch of num_frames frames
PipelineFrames(kw) ==
    <<[k \in 1..kw.num_frames |-> [frame |-> k, height |-> kw.height, width |-> kw.width]]>>

\* frames.squeeze(0): the batch dimension is dropped when it has size 1
Squeeze0(t) == IF Len(t) = 1 THEN t[1] ELSE t

\* num_frames counts the reference frame too
PipelineKwargsWithRef(in) ==
    [image |-> in.ref_image, image_pose |-> in.pose_images,
     num_frames |-> Len(in.ref_image) + Len(in.pose_images),
     tile_size |-> TileSize, tile_overlap |-> TileOverlap,
     height |-> in.shape[1], width |-> in.shape[2], fps |-> in.fps,
     num_inference_steps |-> in.steps, decode_chunk_size |-> DecodeChunkSize]

\* lines 153-179: the keyword arguments of the pipeline call
PipelineKwargs(in) ==
    [image |-> in.ref_image, image_pose |-> in.pose_images,
     num_frames |-> Len(in.pose_images),
     tile_size |-> TileSize, tile_overlap |-> TileOverlap,
     height |-> in.shape[1], width |-> in.shape[2], fps |-> in.fps,
     num_inference_steps |-> in.steps, decode_chunk_size |-> DecodeChunkSize]

SamplerInputs ==
    [ref_image : {<<"ref">>},
     pose_images : {[k \in 1..n |-> k] : n \in 1..MaxFrames},
     shape : Shapes, steps : StepChoices, fps : FpsChoices]

\* lines 145-183: the whole sampler call
Sample ==
    /\ lpc = "done"
    /\ spc = "idle"
    /\ \E in \in SamplerInputs :
          /\ sampler_in' = in
          /\ pipeline_call' = PipelineKwargs(in)
          /\ frames' = Squeeze0(PipelineFrames(pipeline_call'))
    /\ spc' = "done"

SampleIdle ==
    /\ spc = "idle"
    /\ sampler_in = None
    /\ pipeline_call = None
    /\ frames = None

PosesIdle ==
    /\ ref_image = None
    /\ pose_images = None
    /\ include = None
    /\ pc = "off"
    /\ dw_calls = <<>>
    /\ ref_pose = None
    /\ ref_keypoint_id = <<>>
    /\ ref_body = <<>>
    /\ detected_bodies = <<>>
    /\ detected_poses_np_list = <<>>
    /\ a = None
    /\ b = None
    /\ output_tensor = <<>>
    /\ err = NoError
    /\ prev = NoCall

(***************************************************************************)
(* Spec: the pose extractor, run and re-run by the host.                   *)
(* SpecLoad: the loader, then the sampler on the loaded pipeline.          *)
(***************************************************************************)
Init == InitPoses /\ LoadIdle /\ SampleIdle

Next ==
    \/ DetectPoses /\ UNCHANGED <<loadvars, samplevars>>
    \/ FitParams /\ UNCHANGED <<loadvars, samplevars>>
    \/ RenderPoses /\ UNCHANGED <<loadvars, samplevars>>
    \/ RequeueInclude /\ UNCHANGED <<loadvars, samplevars>>
    \/ RequeueFrame /\ UNCHANGED <<loadvars, samplevars>>

Spec == Init /\ [][Next]_vars

InitLoader == PosesIdle /\ InitLoad /\ SampleIdle

NextLoad ==
    \/ EnsureCheckpoint /\ UNCHANGED <<posevars, samplevars>>
    \/ CheckBaseModel /\ UNCHANGED <<posevars, samplevars>>
    \/ BuildPipeline /\ UNCHANGED <<posevars, samplevars>>
    \/ Sample /\ UNCHANGED <<posevars, loadvars>>

SpecLoad == InitLoader /\ [][NextLoad]_vars

(***************************************************************************)
(* The properties.  They are stated on the inputs and on what the          *)
(* detector finds in them, with the numbers of the specification written   *)
(* out (18 body points, confidence 0.3 = 3 tenths).                        *)
(***************************************************************************)
NFrames == Len(pose_images.frames)
Found(img) == dwprocessor(img)
HasCompleteBody(img) == Len(Found(img).bodies.candidate) = 18
StableLandmarks == {0, 1, 2, 5, 8, 11, 14, 15, 16, 17}
One == <<1, 1>>
Zero == <<0, 1>>
IdentityMap == a = <<One, One>> /\ b = <<Zero, Zero>>

\* q is the rational s * v + t, for a detected integer coordinate v
\* (both sides are multiplied by the common denominator m of s and t)
IsImage(q, v, s, t) ==
    LET m == (s[2] \div GCD(s[2], t[2])) * t[2]
    IN  /\ q[2] > 0
        /\ q[1] * m = q[2] * (v * s[1] * (m \div s[2]) + t[1] * (m \div t[2]))

\* every point of after is the image of the point of before under (a, b)
Reprojected(before, after) ==
    /\ Len(after) = Len(before)
    /\ \A k \in 1..Len(before) :
          /\ IsImage(after[k][1], before[k][1], a[1], b[1])
          /\ IsImage(after[k][2], before[k][2], a[2], b[2])

\* C1: a call of process that returns for N driving frames returns 1 + N
\* pose images, however many of the frames were left out of the fit.
C1_OutputLength ==
    pc = "done" => Len(output_tensor) = 1 + NFrames

C1_Witness ==
    /\ pc = "done"
    /\ NFrames = 2
    /\ \E k \in 1..NFrames : ~HasCompleteBody(pose_images.frames[k])
    /\ Len(output_tensor) = 3

\* C2: the detector is run once per driving frame in input order, and the
\* output is the reference rendering followed by the rendering of driving
\* frame i at position i + 1: none dropped, duplicated or reordered.
C2_OrderPreserved ==
    pc = "done" =>
        /\ SubSeq(dw_calls, 2, Len(dw_calls)) = pose_images.frames
        /\ Len(output_tensor) = 1 + NFrames
        /\ output_tensor[1] =
              draw_pose(Found(ref_image.content), ref_image.shape[1], ref_image.shape[2],
                        include.body, include.hand, include.face)
        /\ \A i \in 1..NFrames :
              output_tensor[i + 1] =
                  draw_pose(Rescale(Found(pose_images.frames[i]), a, b),
                            ref_image.shape[1], ref_image.shape[2],
                            include.body, include.hand, include.face)

C2_Witness ==
    /\ pc = "done"
    /\ NFrames = 2
    /\ pose_images.frames[1] # pose_images.frames[2]
    /\ output_tensor[2] # output_tensor[3]

\* C3: when no driving frame has a complete 18-point body detection (an
\* empty driving sequence included), process fails with an error it raises
\* itself for that condition, not with an exception propagated from a
\* numeric routine, and emits no output.
C3_ExplicitFittingSetError ==
    (/\ pc \in {"fitted", "done", "failed"}
     /\ \A k \in 1..NFrames : ~HasCompleteBody(pose_images.frames[k]))
    => /\ pc = "failed"
       /\ err.raised_by = "process"
       /\ output_tensor = <<>>

\* C4: the include flags affect the rendering only: a call that differs from
\* the previous one in a flag alone ends the same way with the same index
\* set, the same (ax, ay, bx, by) and the same reprojected keypoints.
C4_FlagsRenderOnly ==
    (/\ prev.edit = "include"
     /\ pc \in {"done", "failed"})
    => /\ prev.pc = pc
       /\ prev.err = err
       /\ prev.ref_keypoint_id = ref_keypoint_id
       /\ prev.a = a
       /\ prev.b = b
       /\ prev.poses = detected_poses_np_list

C4_Witness ==
    /\ prev.edit = "include"
    /\ prev.pc = "done"
    /\ pc = "done"
    /\ ~IdentityMap
    /\ NFrames = 2

\* C5 as stated: identical reference pose and driving frames give the
\* identity map.
IdenticalPoses ==
    /\ NFrames >= 1
    /\ \A k \in 1..NFrames : Found(pose_images.frames[k]) = Found(ref_image.content)

C5_IdentityAlways ==
    (pc \in {"fitted", "done"} /\ IdenticalPoses) => IdentityMap

SameAspect ==
    pose_images.shape[1] * ref_image.shape[2] = pose_images.shape[2] * ref_image.shape[1]

TwoLevels ==
    \E i, j \in 1..Len(ref_body) : ref_body[i][2] # ref_body[j][2]

\* C5 amended: identical reference pose and driving frames give the identity
\* map when the driving frames have the aspect ratio of the reference image
\* and the reference landmarks at I lie at two different heights at least;
\* every reprojected driving keypoint then equals its detected position.
C5_IdentityWhenDetermined ==
    (pc \in {"fitted", "done"} /\ IdenticalPoses /\ SameAspect /\ TwoLevels)
    => /\ IdentityMap
       /\ pc = "done" =>
             \A k \in 1..NFrames :
                 LET found == Found(pose_images.frames[k]).bodies.candidate
                     moved == detected_poses_np_list[k].bodies.candidate
                 IN  /\ Len(moved) = Len(found)
                     /\ \A j \in 1..Len(found) :
                           moved[j] = <<<<found[j][1], 1>>, <<found[j][2], 1>>>>

C5_Witness ==
    /\ pc = "done"
    /\ IdenticalPoses
    /\ SameAspect
    /\ TwoLevels
    /\ NFrames = 2
    /\ IdentityMap

\* C6: the sampler asks the pipeline for exactly as many frames as there are
\* pose frames, with tile size 16, overlap 6 and decode chunk size 8, and
\* returns that many frames: no reference frame is prepended.
C6_SamplerFrameCount ==
    spc = "done" =>
        /\ Len(sampler_in.ref_image) = 1
        /\ pipeline_call.num_frames = Len(sampler_in.pose_images)
        /\ pipeline_call.image_pose = sampler_in.pose_images
        /\ pipeline_call.tile_size = 16
        /\ pipeline_call.tile_overlap = 6
        /\ pipeline_call.decode_chunk_size = 8
        /\ Len(frames) = Len(sampler_in.pose_images)

C6_Witness ==
    /\ spc = "done"
    /\ Len(sampler_in.pose_images) = 2
    /\ Len(frames) = 2

\* C7 as stated: with the base-model directory absent (and no failure of the
\* fetch itself), loadmodel fails with its own error, builds no handle and
\* has attempted no remote fetch before failing.
C7_NoFetchBeforeFailure ==
    (/\ ~files.svd_path
     /\ lpc \in {"done", "failed"}
     /\ load_err.raised_by # "snapshot_download")
    => /\ lpc = "failed"
       /\ load_err = [kind |-> "ValueError", raised_by |-> "loadmodel"]
       /\ mimic_model = None
       /\ downloads = <<>>

\* C7 amended: with the base-model directory absent loadmodel never builds
\* or returns a handle and fetches at most once; it ends with the error it
\* raises itself for the missing directory, unless the fetch of a missing
\* checkpoint raised first.  The fetch of a missing checkpoint comes before
\* the failure.
C7_FailsWithoutHandle ==
    (~files.svd_path /\ lpc \in {"done", "failed"})
    => /\ lpc = "failed"
       /\ mimic_model = None
       /\ Len(downloads) <= 1
       /\ \/ load_err = [kind |-> "ValueError", raised_by |-> "loadmodel"]
          \/ /\ load_err.raised_by = "snapshot_download"
             /\ Len(downloads) = 1

C7_Witness ==
    /\ ~files.svd_path
    /\ lpc = "failed"
    /\ load_err = [kind |-> "ValueError", raised_by |-> "loadmodel"]
    /\ Len(downloads) = 1
    /\ mimic_model = None

\* the driving frames with a complete body detection, in input order
FittingFrames == SelectSeq(pose_images.frames, HasCompleteBody)

\* C8: only the driving frames with exactly 18 body points enter the fit;
\* the one fitted map is applied to the body, hand and face keypoints of
\* every driving frame, those left out of the fit included; replacing an
\* incomplete frame never changes (ax, ay, bx, by); the reference pose is
\* drawn untransformed.
C8_FitFromCompleteOnly ==
    /\ pc \in {"fitted", "done"} => Len(detected_bodies) = Len(FittingFrames)
    /\ pc = "done" =>
          /\ Len(detected_poses_np_list) = NFrames
          /\ \A k \in 1..NFrames :
                LET found == Found(pose_images.frames[k])
                    moved == detected_poses_np_list[k]
                IN  /\ Reprojected(found.bodies.candidate, moved.bodies.candidate)
                    /\ Reprojected(found.hands, moved.hands)
                    /\ Reprojected(found.faces, moved.faces)
          /\ ref_pose = Found(ref_image.content)
          /\ include.body => output_tensor[1].body = Found(ref_image.content).bodies.candidate
          /\ include.hand => output_tensor[1].hand = Found(ref_image.content).hands
          /\ include.face => output_tensor[1].face = Found(ref_image.content).faces
    /\ (pc \in {"fitted", "done"} /\ prev.edit = "frame")
          => /\ prev.pc = "done"
             /\ prev.a = a
             /\ prev.b = b

C8_Witness ==
    /\ pc = "done"
    /\ prev.edit = "frame"
    /\ ~IdentityMap
    /\ \E k \in 1..NFrames :
          /\ ~HasCompleteBody(pose_images.frames[k])
          /\ Len(detected_poses_np_list[k].bodies.candidate) = 36
          /\ Len(detected_poses_np_list[k].hands) = 4

\* C9: I is exactly the members of [0,1,2,5,8,11,14,15,16,17] whose
\* confidence in the first detected reference person is strictly above 0.3,
\* in list order; the same I selects the reference landmarks and the
\* landmarks of every fitting frame; I is the same in a repeated call on the
\* same reference image.
C9_CorrespondenceSet ==
    LET ref == Found(ref_image.content).bodies
    IN  /\ pc \in {"detected", "fitted", "done", "failed"} =>
              /\ \A k \in 1..(Len(ref_keypoint_id) - 1) :
                    ref_keypoint_id[k] < ref_keypoint_id[k + 1]
              /\ \A i \in 0..17 :
                    (\E k \in 1..Len(ref_keypoint_id) : ref_keypoint_id[k] = i)
                    <=> /\ i \in StableLandmarks
                        /\ Len(ref.score) > 0
                        /\ ref.score[1][i + 1] > 3
              /\ Len(ref_body) = Len(ref_keypoint_id)
              /\ \A k \in 1..Len(ref_keypoint_id) :
                    ref_body[k] = ref.candidate[ref_keypoint_id[k] + 1]
              /\ prev.edit # "none" => prev.ref_keypoint_id = ref_keypoint_id
        /\ pc \in {"fitted", "done"} =>
              /\ Len(detected_bodies) = Len(FittingFrames)
              /\ \A m \in 1..Len(detected_bodies) :
                    LET found == Found(FittingFrames[m]).bodies.candidate
                    IN  /\ Len(detected_bodies[m]) = Len(ref_keypoint_id)
                        /\ \A k \in 1..Len(ref_keypoint_id) :
                              detected_bodies[m][k] = found[ref_keypoint_id[k] + 1]

C9_Witness ==
    /\ pc = "done"
    /\ prev.edit # "none"
    /\ ref_keypoint_id = <<0>>
    /\ Len(detected_bodies) = 2
    /\ Found(ref_image.content).bodies.score[1][2] = 3

\* the reference image yields no usable correspondence keypoint
RefUnusable ==
    \/ Len(Found(ref_image.content).bodies.score) = 0
    \/ \A i \in StableLandmarks : Found(ref_image.content).bodies.score[1][i + 1] <= 3

\* C10: when the reference image yields no usable correspondence keypoint
\* (no person, or no stable landmark above 0.3), process ends in an error and
\* returns no pose-image sequence, whatever the driving sequence.
C10_NoCorrespondenceIsFatal ==
    (pc \in {"fitted", "done", "failed"} /\ RefUnusable)
    => /\ pc = "failed"
       /\ err # NoError
       /\ output_tensor = <<>>

C10_Witness ==
    /\ pc = "failed"
    /\ RefUnusable
    /\ Len(Found(ref_image.content).bodies.score) > 0
    /\ err = [kind |-> "TypeError", raised_by |-> "np.polyfit"]
    /\ NFrames = 2
    /\ output_tensor = <<>>


====
